---- MODULE Spec2Model ----
(***************************************************************************)
(* Model of the binary-mask decoder of scraper.py: the row locator and     *)
(* dictionary extractor (extract_data_from_json), the bit decoder          *)
(* (process_row_with_binary_masks with reverse_binary_16bit and            *)
(* convert_timestamp), the row projector (convert_processed_row_to_csv)    *)
(* and the batch driver (process_data_with_binary_masks).                  *)
(*                                                                         *)
(* JSON values are records of one shape, [t, hi, n, keys, kids]:           *)
(*   t    the Python type or kind of the value                             *)
(*   hi,n a number hi * 10^6 + n (TLC integers are 32 bit, the thresholds  *)
(*        of convert_timestamp are 10^9 and 10^12); for a "str" n is the   *)
(*        identity of the text, 0 being the empty string                   *)
(*   keys, kids  the keys and values of a dict in insertion order, or the  *)
(*        items of a list (keys empty)                                     *)
(* Kinds: "null" None, "bool", "int", "float" (integral float),            *)
(* "floatfrac" (float with a fractional part, hi,n its truncation), "nan", *)
(* "str" (text that float() rejects), "digits" (str.isdigit() text that    *)
(* int() accepts), "digitlike" (str.isdigit() text that int() rejects,     *)
(* such as a superscript two), "list", "dict", and two kinds of produced   *)
(* text: "date" (strftime result, n the day number since the epoch) and    *)
(* "oor" (the text Index_<hi,n>_OutOfRange).                               *)
(***************************************************************************)
EXTENDS Integers, Sequences, FiniteSets, TLC

VARIABLES pc, json_data, data_rows, dictionaries, timestamp,
          processed_rows, csv_data, i,
          row_data, previous_row, c_values, r_binary, sigma_binary,
          result, col_idx, value_index,
          csv_row, exit_status, csv_file

vars == <<pc, json_data, data_rows, dictionaries, timestamp,
          processed_rows, csv_data, i,
          row_data, previous_row, c_values, r_binary, sigma_binary,
          result, col_idx, value_index,
          csv_row, exit_status, csv_file>>

batchVars == <<json_data, data_rows, dictionaries, timestamp,
               processed_rows, csv_data, i>>

rowVars == <<row_data, previous_row, c_values, r_binary, sigma_binary,
             result, col_idx, value_index>>

runVars == <<exit_status, csv_file>>

\* ------------------------------------------------------------------------
\* Bounds of the model
\* ------------------------------------------------------------------------
MaxC == 2
MaxDictLen == 2
MaxRows == 3

\* ------------------------------------------------------------------------
\* run: the exit status of the process while run has not ended
\* ------------------------------------------------------------------------
Running == 0 - 1

\* ------------------------------------------------------------------------
\* JSON values
\* ------------------------------------------------------------------------
Million == 1000000

Node(t, hi, n, keys, kids) == [t |-> t, hi |-> hi, n |-> n, keys |-> keys, kids |-> kids]

Scalar(t, hi, n) == Node(t, hi, n, <<>>, <<>>)

None == Scalar("null", 0, 0)

IntV(n) == Scalar("int", 0, n)

StrV(id) == Scalar("str", 0, id)

EmptyStr == StrV(0)

Digits(n) == Scalar("digits", 0, n)

List(items) == Node("list", 0, 0, <<>>, items)

Dict(keys, kids) == Node("dict", 0, 0, keys, kids)

EmptyList == List(<<>>)

EmptyDict == Dict(<<>>, <<>>)

\* Python truth value of a JSON value or of a produced text
Truthy(v) ==
    CASE v.t = "null" -> FALSE
      [] v.t \in {"bool", "int", "float"} -> v.hi # 0 \/ v.n # 0
      [] v.t = "str" -> v.n # 0
      [] v.t \in {"list", "dict"} -> Len(v.kids) > 0
      [] OTHER -> TRUE

\* key in obj, for a dict
HasKey(obj, key) == \E j \in 1..Len(obj.keys) : obj.keys[j] = key

\* obj.get(key, default), for a dict
Get(obj, key, default) ==
    IF HasKey(obj, key)
    THEN obj.kids[CHOOSE j \in 1..Len(obj.keys) : obj.keys[j] = key]
    ELSE default

\* ------------------------------------------------------------------------
\* reverse_binary_16bit
\* ------------------------------------------------------------------------
MinusSign == 0 - 1

RECURSIVE BinaryDigits(_)
\* the binary digits of n >= 0, most significant first, as format(n, 'b')
BinaryDigits(n) ==
    IF n < 2 THEN <<n>> ELSE Append(BinaryDigits(n \div 2), n % 2)

RECURSIVE ZeroPad(_, _)
\* digits left-padded with zeros to width w
ZeroPad(digits, w) ==
    IF Len(digits) >= w THEN digits ELSE ZeroPad(<<0>> \o digits, w)

\* format(value, '016b'): sign, then the magnitude zero-padded so that the
\* whole text is at least 16 characters
Format016b(n) ==
    IF n < 0
    THEN <<MinusSign>> \o ZeroPad(BinaryDigits(0 - n), 15)
    ELSE ZeroPad(BinaryDigits(n), 16)

\* the text without the reversal
NotReversed(s) == s

\* s[::-1]
Reversed(s) == [j \in 1..Len(s) |-> s[Len(s) + 1 - j]]

\* format() accepts the 'b' presentation for int and bool only
FormatRaises(value) == value.t \notin {"null", "int", "bool"}

reverse_binary_16bit(value) ==
    IF value.t = "null"
    THEN [j \in 1..16 |-> 0]
    ELSE Reversed(Format016b(value.n))

\* ------------------------------------------------------------------------
\* convert_timestamp
\* ------------------------------------------------------------------------
\* datetime.fromtimestamp accepts seconds up to the end of the year 9999
MaxEpochHi == 253402

MaxEpochLo == 300799

IsText(v) == v.t \in {"str", "digits", "digitlike", "date", "oor"}

IsNumber(v) == v.t \in {"bool", "int", "float", "floatfrac", "nan"}

\* number hi*10^6 + n (plus a fraction for "floatfrac") > kHi * 10^6
GreaterThan(v, kHi) ==
    /\ v.t # "nan"
    /\ \/ v.hi > kHi
       \/ v.hi = kHi /\ (v.n > 0 \/ v.t = "floatfrac")

\* strftime('%Y-%m-%d') of a moment, as the number of its day
DateText(day) == Scalar("date", 0, day)

\* seconds hi*10^6 + n within the range of datetime
InDatetimeRange(hi, n) ==
    \/ hi < MaxEpochHi
    \/ hi = MaxEpochHi /\ n <= MaxEpochLo

\* floor((hi*10^6 + n) / 86400), computed without leaving 32 bits
DayOfSeconds(hi, n) == (hi * 5000 + n \div 200) \div 432

convert_timestamp(ts) ==
    IF ~Truthy(ts) THEN ts
    ELSE IF IsText(ts) /\ ts.t # "digits" THEN ts          \* float() raises
    ELSE IF ~IsText(ts) /\ ~IsNumber(ts) THEN ts           \* comparison raises
    ELSE LET num == IF ts.t = "digits" THEN Scalar("float", ts.hi, ts.n) ELSE ts
         IN  IF GreaterThan(num, Million)                  \* > 10^12: milliseconds
             THEN LET secHi == num.hi \div 1000
                      secLo == (num.hi % 1000) * 1000 + num.n \div 1000
                  IN  IF InDatetimeRange(secHi, secLo)
                      THEN DateText(DayOfSeconds(secHi, secLo))
                      ELSE num
             ELSE IF GreaterThan(num, 1000)                \* > 10^9: seconds
             THEN IF InDatetimeRange(num.hi, num.n)
                  THEN DateText(DayOfSeconds(num.hi, num.n))
                  ELSE num
             ELSE num

\* ------------------------------------------------------------------------
\* process_row_with_binary_masks
\* ------------------------------------------------------------------------
columns == <<"G0", "G1", "G2", "G3", "G4", "G5", "G6", "G7", "G8", "G9", "G10",
             "M0", "M1", "M2", "M3">>

NumColumns == 15

\* the text Index_<index>_OutOfRange
OutOfRange(index) == Scalar("oor", index.hi, index.n)

\* the conversion of a raw entry to an integer index: "index" with the
\* integer, "raise" when int() raises inside the try, "skip" for the branch
\* that stores the raw entry and continues with the next column
CoerceIndex(raw_value) ==
    CASE raw_value.t = "digits" -> [kind |-> "index", hi |-> raw_value.hi, n |-> raw_value.n]
      [] raw_value.t = "digitlike" -> [kind |-> "raise", hi |-> 0, n |-> 0]
      [] raw_value.t \in {"int", "bool", "float", "floatfrac"} ->
            [kind |-> "index", hi |-> raw_value.hi, n |-> raw_value.n]
      [] raw_value.t = "nan" -> [kind |-> "raise", hi |-> 0, n |-> 0]
      [] OTHER -> [kind |-> "skip", hi |-> 0, n |-> 0]

\* DictLookup with positions counted from 1
DictLookupOneBased(dict_values, index, raw_value) ==
    CASE dict_values.t = "list" ->
            IF index.hi = 0 /\ 1 <= index.n /\ index.n <= Len(dict_values.kids)
            THEN dict_values.kids[index.n]
            ELSE OutOfRange(index)
      [] dict_values.t = "dict" ->
            IF index.hi = 0 /\ 1 <= index.n /\ index.n <= Len(dict_values.kids)
            THEN raw_value
            ELSE OutOfRange(index)
      [] OTHER -> raw_value

\* dict_values[index] when 0 <= index < len(dict_values), else the
\* placeholder; a table without len() or without the integer key raises
\* inside the try and the raw entry is stored
DictLookup(dict_values, index, raw_value) ==
    CASE dict_values.t = "list" ->
            IF index.hi = 0 /\ 0 <= index.n /\ index.n < Len(dict_values.kids)
            THEN dict_values.kids[index.n + 1]
            ELSE OutOfRange(index)
      [] dict_values.t = "dict" ->
            IF index.hi = 0 /\ 0 <= index.n /\ index.n < Len(dict_values.kids)
            THEN raw_value
            ELSE OutOfRange(index)
      [] OTHER -> raw_value

\* MapValue with a table for every column but G0: the measure columns read
\* the table of G1
MapValueLookupEverywhere(raw_value, column_name, dicts) ==
    IF column_name = "G0"
    THEN [value |-> convert_timestamp(raw_value), advance |-> TRUE]
    ELSE LET index == CoerceIndex(raw_value)
             table == IF column_name \in DOMAIN dicts THEN dicts[column_name] ELSE dicts["G1"]
         IN  CASE index.kind = "skip" -> [value |-> raw_value, advance |-> FALSE]
               [] index.kind = "raise" -> [value |-> raw_value, advance |-> TRUE]
               [] OTHER -> [value |-> DictLookup(table, index, raw_value),
                            advance |-> TRUE]

\* the value stored for a consumed entry, and whether the statement
\* value_index += 1 is reached afterwards
MapValue(raw_value, column_name, dicts) ==
    IF column_name = "G0"
    THEN [value |-> convert_timestamp(raw_value), advance |-> TRUE]
    ELSE IF column_name \in DOMAIN dicts
    THEN LET index == CoerceIndex(raw_value)
         IN  CASE index.kind = "skip" -> [value |-> raw_value, advance |-> FALSE]
               [] index.kind = "raise" -> [value |-> raw_value, advance |-> TRUE]
               [] OTHER -> [value |-> DictLookup(dicts[column_name], index, raw_value),
                            advance |-> TRUE]
    ELSE [value |-> raw_value, advance |-> TRUE]

\* the value of a column whose repeat bit is 1
InheritedValue(prev, col) ==
    IF Truthy(prev) THEN prev.kids[col + 1] ELSE None

\* DecodeColumn with the null mask tested before the repeat mask
DecodeColumnNullFirst(col, r_bit, sigma_bit, prev, c, vi, dicts) ==
    IF sigma_bit = 1
    THEN [value |-> None, value_index |-> vi]
    ELSE IF r_bit = 1
    THEN [value |-> InheritedValue(prev, col), value_index |-> vi]
    ELSE IF vi < Len(c.kids)
    THEN LET m == MapValue(c.kids[vi + 1], columns[col + 1], dicts)
         IN  [value |-> m.value,
              value_index |-> IF m.advance THEN vi + 1 ELSE vi]
    ELSE [value |-> None, value_index |-> vi]

\* DecodeColumn where a repeat bit without a previous row falls through to
\* the null mask and the sparse values
DecodeColumnFallThrough(col, r_bit, sigma_bit, prev, c, vi, dicts) ==
    IF r_bit = 1 /\ Truthy(prev)
    THEN [value |-> prev.kids[col + 1], value_index |-> vi]
    ELSE IF sigma_bit = 1
    THEN [value |-> None, value_index |-> vi]
    ELSE IF vi < Len(c.kids)
    THEN LET m == MapValue(c.kids[vi + 1], columns[col + 1], dicts)
         IN  [value |-> m.value,
              value_index |-> IF m.advance THEN vi + 1 ELSE vi]
    ELSE [value |-> None, value_index |-> vi]

\* DecodeColumn with the cursor wrapping around an exhausted C
DecodeColumnWrapAround(col, r_bit, sigma_bit, prev, c, vi, dicts) ==
    IF r_bit = 1
    THEN [value |-> InheritedValue(prev, col), value_index |-> vi]
    ELSE IF sigma_bit = 1
    THEN [value |-> None, value_index |-> vi]
    ELSE IF Len(c.kids) > 0
    THEN LET m == MapValue(c.kids[(vi % Len(c.kids)) + 1], columns[col + 1], dicts)
         IN  [value |-> m.value,
              value_index |-> IF m.advance THEN vi + 1 ELSE vi]
    ELSE [value |-> None, value_index |-> vi]

\* one iteration of the loop over the columns: the new value of the column
\* and the new value_index
DecodeColumn(col, r_bit, sigma_bit, prev, c, vi, dicts) ==
    IF r_bit = 1
    THEN [value |-> InheritedValue(prev, col), value_index |-> vi]
    ELSE IF sigma_bit = 1
    THEN [value |-> None, value_index |-> vi]
    ELSE IF vi < Len(c.kids)
    THEN LET m == MapValue(c.kids[vi + 1], columns[col + 1], dicts)
         IN  [value |-> m.value,
              value_index |-> IF m.advance THEN vi + 1 ELSE vi]
    ELSE [value |-> None, value_index |-> vi]

\* entry of process_row_with_binary_masks, up to the loop
ProcessRowBegin ==
    /\ pc = "call"
    /\ LET r_value == Get(row_data, "R", IntV(0))
           sigma_value == Get(row_data, "Ø", IntV(0))
       IN  IF FormatRaises(r_value) \/ FormatRaises(sigma_value)
           THEN /\ pc' = "raised"
                /\ c_values' = Get(row_data, "C", EmptyList)
                /\ result' = [j \in 1..NumColumns |-> None]
                /\ UNCHANGED <<r_binary, sigma_binary, col_idx, value_index>>
           ELSE /\ pc' = "loop"
                /\ c_values' = Get(row_data, "C", EmptyList)
                /\ result' = [j \in 1..NumColumns |-> None]
                /\ r_binary' = reverse_binary_16bit(r_value)
                /\ sigma_binary' = reverse_binary_16bit(sigma_value)
                /\ value_index' = 0
                /\ col_idx' = 0
    /\ UNCHANGED <<row_data, previous_row>>
    /\ UNCHANGED batchVars
    /\ UNCHANGED <<csv_row, exit_status, csv_file>>

\* one iteration of "for col_idx in range(15)"
DecodeSlot ==
    /\ pc = "loop"
    /\ col_idx < NumColumns
    /\ LET d == DecodeColumn(col_idx, r_binary[col_idx + 1], sigma_binary[col_idx + 1],
                             previous_row, c_values, value_index, dictionaries)
       IN  /\ result' = [result EXCEPT ![col_idx + 1] = d.value]
           /\ value_index' = d.value_index
    /\ col_idx' = col_idx + 1
    /\ UNCHANGED <<pc, row_data, previous_row, c_values, r_binary, sigma_binary>>
    /\ UNCHANGED batchVars
    /\ UNCHANGED <<csv_row, exit_status, csv_file>>

\* return result
ProcessRowReturn ==
    /\ pc = "loop"
    /\ col_idx = NumColumns
    /\ pc' = "return"
    /\ UNCHANGED <<row_data, previous_row, c_values, r_binary, sigma_binary,
                   result, col_idx, value_index>>
    /\ UNCHANGED batchVars
    /\ UNCHANGED <<csv_row, exit_status, csv_file>>

\* ------------------------------------------------------------------------
\* extract_data_from_json
\* ------------------------------------------------------------------------
RECURSIVE find_rows(_)
RECURSIVE find_rows_each(_)
\* the dicts that carry a list under 'C', in the order find_rows appends them
find_rows(obj) ==
    IF obj.t = "dict"
    THEN (IF HasKey(obj, "C") /\ Get(obj, "C", None).t = "list" THEN <<obj>> ELSE <<>>)
         \o find_rows_each(obj.kids)
    ELSE IF obj.t = "list"
    THEN find_rows_each(obj.kids)
    ELSE <<>>

\* find_rows applied to the items of a sequence, one after the other
find_rows_each(items) ==
    IF items = <<>> THEN <<>>
    ELSE find_rows(Head(items)) \o find_rows_each(Tail(items))

\* HasMask with "and" in the place of "or"
HasBothMasks(row) == Get(row, "Ø", None) # None /\ Get(row, "R", None) # None

\* row.get('Ø') is not None or row.get('R') is not None
HasMask(row) == Get(row, "Ø", None) # None \/ Get(row, "R", None) # None

\* "if not results" and "if not ds_list": the ValueError of lines 414 and 422
NoResults(json) == ~Truthy(Get(json, "results", EmptyList))

\* results[0].get('result', {}).get('data', {}); a value without .get or
\* without an item 0 raises on the way
FirstResult(json) == Get(json, "results", EmptyList).kids[1]

ResultData(json) == Get(Get(FirstResult(json), "result", EmptyDict), "data", EmptyDict)

DsList(json) == Get(Get(ResultData(json), "dsr", EmptyDict), "DS", EmptyList)

ValueDictsOf(json) == Get(DsList(json).kids[1], "ValueDicts", EmptyDict)

\* extract_data_from_json raises: no results, no DS list, or a value of the
\* wrong type on the path to them
ExtractRaises(json) ==
    \/ json.t # "dict"
    \/ NoResults(json)
    \/ Get(json, "results", EmptyList).t # "list"
    \/ FirstResult(json).t # "dict"
    \/ Get(FirstResult(json), "result", EmptyDict).t # "dict"
    \/ ResultData(json).t # "dict"
    \/ Get(ResultData(json), "dsr", EmptyDict).t # "dict"
    \/ ~Truthy(DsList(json))
    \/ DsList(json).t # "list"
    \/ DsList(json).kids[1].t # "dict"
    \/ ValueDictsOf(json).t # "dict"

\* the source table of a dictionary column: G1 reads D0, ..., G10 reads D9
SourceTable(name) ==
    CASE name = "G1" -> "D0" [] name = "G2" -> "D1" [] name = "G3" -> "D2"
      [] name = "G4" -> "D3" [] name = "G5" -> "D4" [] name = "G6" -> "D5"
      [] name = "G7" -> "D6" [] name = "G8" -> "D7" [] name = "G9" -> "D8"
      [] name = "G10" -> "D9"

DictColumns == {"G1", "G2", "G3", "G4", "G5", "G6", "G7", "G8", "G9", "G10"}

ExtractDictionaries(json) ==
    [name \in DictColumns |-> Get(ValueDictsOf(json), SourceTable(name), EmptyList)]

\* FilteredRows without the filter
UnfilteredRows(json) == find_rows(json)

\* "for row in data_rows: if ...: filtered_rows.append(row)"
FilteredRows(json) == SelectSeq(find_rows(json), HasMask)

\* extract_data_from_json, called by process_json_to_csv
Extract ==
    /\ pc = "extract"
    /\ IF ExtractRaises(json_data)
       THEN /\ pc' = "failed"
            /\ UNCHANGED <<data_rows, dictionaries, timestamp>>
       ELSE /\ pc' = "process"
            /\ data_rows' = FilteredRows(json_data)
            /\ dictionaries' = ExtractDictionaries(json_data)
            /\ timestamp' = Get(ResultData(json_data), "timestamp", EmptyStr)
    /\ UNCHANGED <<json_data, processed_rows, csv_data, i>>
    /\ UNCHANGED <<row_data, previous_row, c_values, r_binary, sigma_binary,
                   result, col_idx, value_index>>
    /\ UNCHANGED <<csv_row, exit_status, csv_file>>

\* ------------------------------------------------------------------------
\* convert_processed_row_to_csv
\* ------------------------------------------------------------------------
\* x if x else ''
OrEmpty(x) == IF Truthy(x) THEN x ELSE EmptyStr

\* NoneToEmpty with the truth value in the place of "is not None"
NoneToEmptyByTruth(x) == IF Truthy(x) THEN x ELSE EmptyStr

\* x if x is not None else ''
NoneToEmpty(x) == IF x # None THEN x ELSE EmptyStr

CsvRow(processed_row, ts) ==
    [scrape_datetime |-> ts,
     date |-> OrEmpty(processed_row[1]),
     installation |-> OrEmpty(processed_row[2]),
     oil_production |-> NoneToEmpty(processed_row[12]),
     gas_production |-> NoneToEmpty(processed_row[13]),
     oil_equivalents_boe |-> NoneToEmpty(processed_row[15]),
     operator |-> OrEmpty(processed_row[3]),
     type |-> OrEmpty(processed_row[4]),
     estado |-> OrEmpty(processed_row[5]),
     city |-> OrEmpty(processed_row[6]),
     atendimento_campo |-> OrEmpty(processed_row[7]),
     campo |-> OrEmpty(processed_row[8]),
     quantity |-> NoneToEmpty(processed_row[14]),
     code |-> NoneToEmpty(processed_row[10]),
     status |-> NoneToEmpty(processed_row[11])]

\* RowAccepted with "is not None" in the place of the truth value
RowAcceptedNotNone(processed_row, ts) == CsvRow(processed_row, ts).date # None

\* "if csv_row['date']: return csv_row", else None
RowAccepted(processed_row, ts) == Truthy(CsvRow(processed_row, ts).date)

convert_processed_row_to_csv(processed_row, ts) ==
    IF RowAccepted(processed_row, ts) THEN CsvRow(processed_row, ts) ELSE None

\* ------------------------------------------------------------------------
\* process_data_with_binary_masks
\* ------------------------------------------------------------------------
\* PreviousRow that keeps the first decoded row
PreviousRowFirst(rows) == IF Len(rows) > 0 THEN List(rows[1]) ELSE None

\* processed_rows[-1] if processed_rows else None
PreviousRow(rows) == IF Len(rows) > 0 THEN List(rows[Len(rows)]) ELSE None

\* Collected with the record put in front
CollectedInFront(csv, record) == IF record # None THEN <<record>> \o csv ELSE csv

\* csv_data after "if csv_row is not None: csv_data.append(csv_row)"
Collected(csv, record) == IF record # None THEN Append(csv, record) ELSE csv

\* processed_rows = [], csv_data = []
ProcessDataBegin ==
    /\ pc = "process"
    /\ processed_rows' = <<>>
    /\ csv_data' = <<>>
    /\ i' = 0
    /\ pc' = "batch"
    /\ UNCHANGED <<json_data, data_rows, dictionaries, timestamp>>
    /\ UNCHANGED <<row_data, previous_row, c_values, r_binary, sigma_binary,
                   result, col_idx, value_index>>
    /\ UNCHANGED <<csv_row, exit_status, csv_file>>

\* the head of an iteration of "for i, row_data in enumerate(data_rows)",
\* up to the call of process_row_with_binary_masks
BatchCall ==
    /\ pc = "batch"
    /\ i < Len(data_rows)
    /\ row_data' = data_rows[i + 1]
    /\ previous_row' = PreviousRow(processed_rows)
    /\ pc' = "call"
    /\ UNCHANGED <<c_values, r_binary, sigma_binary, result, col_idx, value_index>>
    /\ UNCHANGED batchVars
    /\ UNCHANGED <<csv_row, exit_status, csv_file>>

\* the rest of the iteration, after process_row_with_binary_masks returned
BatchCollect ==
    /\ pc = "return"
    /\ processed_rows' = Append(processed_rows, result)
    /\ csv_data' = Collected(csv_data, convert_processed_row_to_csv(result, timestamp))
    /\ i' = i + 1
    /\ pc' = "batch"
    /\ UNCHANGED <<json_data, data_rows, dictionaries, timestamp>>
    /\ UNCHANGED <<row_data, previous_row, c_values, r_binary, sigma_binary,
                   result, col_idx, value_index>>
    /\ csv_row' = CsvRow(result, timestamp)
    /\ UNCHANGED runVars

\* return csv_data
BatchReturn ==
    /\ pc = "batch"
    /\ i = Len(data_rows)
    /\ pc' = "done"
    /\ UNCHANGED <<row_data, previous_row, c_values, r_binary, sigma_binary,
                   result, col_idx, value_index>>
    /\ UNCHANGED batchVars
    /\ UNCHANGED <<csv_row, exit_status, csv_file>>

\* ------------------------------------------------------------------------
\* Inputs of the single-row specification
\* ------------------------------------------------------------------------
SeqsUpTo(S, n) == UNION {[1..k -> S] : k \in 0..n}

\* 1 700 000 000 000 ms
TsMs == Scalar("int", 1700000, 0)

NaN == Scalar("nan", 0, 0)

Text == StrV(7)

CValues == {TsMs, IntV(0), IntV(1), Digits(1), Text, NaN}

\* a key that the row node does not carry
Absent == Scalar("absent", 0, 0)

RMaskInputs == {Absent, None, IntV(1), IntV(2046), IntV(32767), IntV(32768), Text}

OMaskInputs == {Absent, IntV(1), IntV(511), IntV(2044), IntV(32767), Scalar("floatfrac", 0, 1)}

RECURSIVE DictOf(_, _)
\* the dict with the given keys, without the keys whose value is Absent
DictOf(keys, kids) ==
    IF keys = <<>> THEN EmptyDict
    ELSE LET rest == DictOf(Tail(keys), Tail(kids))
         IN  IF Head(kids) = Absent THEN rest
             ELSE Dict(<<Head(keys)>> \o rest.keys, <<Head(kids)>> \o rest.kids)

RowNode(c, r, o) == DictOf(<<"C", "R", "Ø">>, <<c, r, o>>)

RowInputs ==
    {RowNode(List(c), r, o) : c \in SeqsUpTo(CValues, MaxC), r \in RMaskInputs, o \in OMaskInputs}

ColumnNumber(name) == CHOOSE k \in 1..NumColumns : columns[k] = name

\* the display value at position j (from 0) of the table of a column
Display(name, j) == StrV(10 * ColumnNumber(name) + j)

FullDicts(len) == [name \in DictColumns |-> List([j \in 1..len |-> Display(name, j - 1)])]

UnsizedDicts == [name \in DictColumns |-> None]

DictInputs == {FullDicts(len) : len \in 0..MaxDictLen} \cup {UnsizedDicts}

\* a decoded row that has a null in column 3
PrevRowA == List([j \in 1..NumColumns |-> IF j = 4 THEN None ELSE StrV(100 + j)])

PrevInputs == {None, PrevRowA}

InitRow ==
    /\ pc = "call"
    /\ row_data \in RowInputs
    /\ previous_row \in PrevInputs
    /\ dictionaries \in DictInputs
    /\ json_data = None
    /\ data_rows = <<>>
    /\ timestamp = EmptyStr
    /\ processed_rows = <<>>
    /\ csv_data = <<>>
    /\ i = 0
    /\ c_values = EmptyList
    /\ r_binary = <<>>
    /\ sigma_binary = <<>>
    /\ result = <<>>
    /\ col_idx = 0
    /\ value_index = 0
    /\ csv_row = None
    /\ exit_status = Running
    /\ csv_file = None

NextRow == ProcessRowBegin \/ DecodeSlot \/ ProcessRowReturn \/ BatchCollect

SpecRow == InitRow /\ [][NextRow]_vars

\* ------------------------------------------------------------------------
\* Inputs of the mask specification: every 16-bit value of R and of Ø
\* ------------------------------------------------------------------------
MaxMask == 65535

\* the two bytes of a 16-bit value exchanged
ByteSwap(m) == (m % 256) * 256 + m \div 256

MaskRowC == List(<<TsMs, IntV(1)>>)

MaskRowInputs ==
    {RowNode(MaskRowC, IntV(m), IntV(ByteSwap(m))) : m \in 0..MaxMask}
    \cup {RowNode(MaskRowC, r, o) : r \in {Absent, None}, o \in {Absent, None, IntV(MaxMask)}}
    \cup {RowNode(MaskRowC, IntV(MaxMask), o) : o \in {Absent, None}}

InitMask ==
    /\ pc = "call"
    /\ row_data \in MaskRowInputs
    /\ previous_row = PrevRowA
    /\ dictionaries = FullDicts(2)
    /\ json_data = None
    /\ data_rows = <<>>
    /\ timestamp = EmptyStr
    /\ processed_rows = <<>>
    /\ csv_data = <<>>
    /\ i = 0
    /\ c_values = EmptyList
    /\ r_binary = <<>>
    /\ sigma_binary = <<>>
    /\ result = <<>>
    /\ col_idx = 0
    /\ value_index = 0
    /\ csv_row = None
    /\ exit_status = Running
    /\ csv_file = None

NextMask == ProcessRowBegin \/ DecodeSlot \/ ProcessRowReturn

SpecMask == InitMask /\ [][NextMask]_vars

\* ------------------------------------------------------------------------
\* Inputs of the pipeline specification: response trees
\* ------------------------------------------------------------------------
\* 1 700 086 400 000 ms, one day after TsMs
TsMs2 == Scalar("int", 1700086, 400000)

\* date and installation, columns 2..10 null
RowA == RowNode(List(<<TsMs, IntV(0)>>), Absent, IntV(2044))

\* another date and installation, an R field of 0
RowB == RowNode(List(<<TsMs2, IntV(1)>>), IntV(0), Absent)

\* the date and the installation repeated from the previous row
RowInherit == RowNode(List(<<IntV(1)>>), IntV(3), Absent)

\* the date null-masked, every other column resolved
RowNoDate == RowNode(List(<<Text, IntV(1), IntV(1), IntV(1)>>), Absent, IntV(1))

\* a date entry of 0, the other columns resolved
RowZeroDate == RowNode(List(<<IntV(0), IntV(0)>>), IntV(0), None)

\* an aggregate row: C, a null R and no Ø
Summary == RowNode(List(<<TsMs>>), None, Absent)

\* a 'C' that is not a list
NotARow == Dict(<<"C", "R">>, <<IntV(5), IntV(1)>>)

\* a row node that carries further nodes below itself
Nested == Dict(<<"C", "R", "X">>, <<List(<<TsMs2>>), IntV(0), List(<<NotARow, RowInherit>>)>>)

\* a row node whose R field is a text
BadMask == RowNode(List(<<TsMs>>), Text, Absent)

TreeRowItems == {RowA, RowB, RowInherit, RowNoDate, RowZeroDate,
                 Summary, Nested, BadMask}

\* the lookup tables D0..D9 with len entries each
ValueDicts(len) ==
    Dict(<<"D0", "D1", "D2", "D3", "D4", "D5", "D6", "D7", "D8", "D9">>,
         [k \in 1..10 |-> List([j \in 1..len |-> Display(columns[k + 1], j - 1)])])

ValueDictsInputs == {Absent, ValueDicts(MaxDictLen)}

\* lookup tables for the first and the last dictionary column only
PartialDicts ==
    Dict(<<"D0", "D9">>,
         <<List(<<Display("G1", 0)>>), List(<<Display("G10", 0), Display("G10", 1)>>)>>)

DSNode(rows, vd) ==
    DictOf(<<"PH", "ValueDicts">>, <<List(<<Dict(<<"DM0">>, <<List(rows)>>)>>), vd>>)

RunTimestamp == StrV(9)

DataNode(ds_list) ==
    DictOf(<<"timestamp", "dsr">>, <<RunTimestamp, DictOf(<<"DS">>, <<ds_list>>)>>)

Response(extra, results) == DictOf(<<"extra", "results">>, <<extra, results>>)

Results(data) == List(<<Dict(<<"result">>, <<Dict(<<"data">>, <<data>>)>>)>>)

\* responses with a row-set container
GoodTrees ==
    {Response(Absent, Results(DataNode(List(<<DSNode(rows, vd)>>)))) :
        rows \in SeqsUpTo(TreeRowItems, MaxRows), vd \in ValueDictsInputs}
    \cup
    {Response(List(<<r>>), Results(DataNode(List(<<DSNode(<<RowB>>, ValueDicts(MaxDictLen))>>)))) :
        r \in TreeRowItems}
    \cup
    {Response(Absent, Results(DataNode(List(<<DSNode(<<RowB>>, PartialDicts)>>))))}
    \cup
    {Response(Absent, Results(DataNode(List(<<DSNode(<<RowA>>, vd),
                                              DSNode(<<RowB>>, ValueDicts(MaxDictLen))>>)))) :
        vd \in {Absent, PartialDicts}}

\* responses without results or without a DS list, with and without row
\* nodes elsewhere in the tree
BadTrees ==
    {Response(extra, results) :
        extra \in {Absent, List(<<RowA>>)},
        results \in {Absent, EmptyList,
                     Results(DataNode(Absent)),
                     Results(DataNode(EmptyList)),
                     Results(DictOf(<<"timestamp", "dsr">>, <<RunTimestamp, Absent>>))}}

TreeInputs == GoodTrees \cup BadTrees

\* responses that carry an error, with and without results
ErrorTrees ==
    {DictOf(<<"error", "results">>, <<Text, results>>) :
        results \in {Absent, Results(DataNode(List(<<DSNode(<<RowA>>, Absent)>>)))}}

ResponseInputs == TreeInputs \cup ErrorTrees

\* ------------------------------------------------------------------------
\* run, make_powerbi_api_request, write_csv_file
\* ------------------------------------------------------------------------
\* ApiRaises without the test for an error
ApiRaisesNever(data) == FALSE

\* if "error" in data: raise
ApiRaises(data) == HasKey(data, "error")

\* the positions at which an exception travels up to the handler of run
Failures == {"nav_failed", "api_failed", "failed", "raised", "write_failed"}

\* Step 1, navigate_powerbi_dashboard: the dates, or an exception of the
\* browser
Navigate ==
    /\ pc = "navigate"
    /\ \E ok \in BOOLEAN : pc' = IF ok THEN "request" ELSE "nav_failed"
    /\ UNCHANGED <<batchVars, rowVars, csv_row, runVars>>

\* Step 2, make_powerbi_api_request: an exception of the transport, or a
\* response, which is returned when it carries no error
ApiRequest ==
    /\ pc = "request"
    /\ \/ /\ pc' = "api_failed"
          /\ UNCHANGED json_data
       \/ \E data \in ResponseInputs :
             IF ApiRaises(data)
             THEN pc' = "api_failed" /\ UNCHANGED json_data
             ELSE pc' = "extract" /\ json_data' = data
    /\ UNCHANGED <<data_rows, dictionaries, timestamp, processed_rows, csv_data, i>>
    /\ UNCHANGED <<rowVars, csv_row, runVars>>

\* write_csv_file: the file is opened and every record is written, or the
\* file cannot be opened
WriteCsv ==
    /\ pc = "done"
    /\ \/ pc' = "written" /\ csv_file' = List(csv_data)
       \/ pc' = "write_failed" /\ UNCHANGED csv_file
    /\ UNCHANGED <<batchVars, rowVars, csv_row, exit_status>>

\* except Exception: ... sys.exit(1)
RunExcept ==
    /\ pc \in Failures
    /\ exit_status = Running
    /\ exit_status' = 1
    /\ UNCHANGED <<pc, batchVars, rowVars, csv_row, csv_file>>

\* run returns after the CSV file is written
RunReturn ==
    /\ pc = "written"
    /\ exit_status = Running
    /\ exit_status' = 0
    /\ UNCHANGED <<pc, batchVars, rowVars, csv_row, csv_file>>

Init ==
    /\ pc = "navigate"
    /\ json_data = None
    /\ data_rows = <<>>
    /\ dictionaries = [name \in DictColumns |-> EmptyList]
    /\ timestamp = EmptyStr
    /\ processed_rows = <<>>
    /\ csv_data = <<>>
    /\ i = 0
    /\ row_data = None
    /\ previous_row = None
    /\ c_values = EmptyList
    /\ r_binary = <<>>
    /\ sigma_binary = <<>>
    /\ result = <<>>
    /\ col_idx = 0
    /\ value_index = 0
    /\ csv_row = None
    /\ exit_status = Running
    /\ csv_file = None

Next ==
    \/ Navigate
    \/ ApiRequest
    \/ Extract
    \/ ProcessDataBegin
    \/ BatchCall
    \/ ProcessRowBegin
    \/ DecodeSlot
    \/ ProcessRowReturn
    \/ BatchCollect
    \/ BatchReturn
    \/ WriteCsv
    \/ RunExcept
    \/ RunReturn

Spec == Init /\ [][Next]_vars

\* ------------------------------------------------------------------------
\* Properties of process_row_with_binary_masks (specification SpecRow)
\* ------------------------------------------------------------------------
RECURSIVE Pow2(_)
Pow2(k) == IF k = 0 THEN 1 ELSE 2 * Pow2(k - 1)

\* the integer a mask field stands for: 0 when absent or null
MaskOf(row, key) ==
    LET v == Get(row, key, IntV(0)) IN IF v.t \in {"int", "bool"} THEN v.n ELSE 0

\* bit k of m, counted from the least significant bit
BitOf(m, k) == (m \div Pow2(k)) % 2

RepeatBit(k) == BitOf(MaskOf(row_data, "R"), k)

NullBit(k) == BitOf(MaskOf(row_data, "Ø"), k)

Slots == 0..(NumColumns - 1)

\* the loop is at column col_idx and executes one iteration
LoopStep == pc = "loop" /\ col_idx < NumColumns /\ col_idx' = col_idx + 1

\* C1: with a defined previous decoded row, every decoded slot whose repeat
\* bit is 1 equals the same slot of the previous row, whatever its null bit
\* and whatever C contains.
C1_InheritanceOverridesNull ==
    (pc \in {"loop", "return"} /\ previous_row # None) =>
        \A k \in Slots :
            (k < col_idx /\ RepeatBit(k) = 1) => result[k + 1] = previous_row.kids[k + 1]

C1_Witness ==
    /\ pc = "return"
    /\ previous_row # None
    /\ Len(c_values.kids) > 0
    /\ \E k \in Slots : RepeatBit(k) = 1 /\ NullBit(k) = 1 /\ result[k + 1] # None
    /\ \E k \in Slots : RepeatBit(k) = 1 /\ NullBit(k) = 0

\* C2: the cursor starts at 0 and an iteration advances it by exactly one
\* when the slot has repeat bit 0 and null bit 0 and an unconsumed entry is
\* left, whatever the entry is, and leaves it unchanged otherwise.
C2_CursorAdvancesByOne ==
    [][ /\ (pc = "call" /\ pc' = "loop") => value_index' = 0
        /\ LoopStep =>
              value_index' =
                 IF /\ RepeatBit(col_idx) = 0
                    /\ NullBit(col_idx) = 0
                    /\ value_index < Len(c_values.kids)
                 THEN value_index + 1
                 ELSE value_index ]_vars

\* C4: without a previous decoded row, an iteration at a slot whose repeat
\* bit is 1 stores null, whatever the null bit, and leaves the cursor where
\* it is.
C4_FirstRowRepeatIsNull ==
    [][(LoopStep /\ previous_row = None /\ RepeatBit(col_idx) = 1) =>
          (result'[col_idx + 1] = None /\ value_index' = value_index)]_vars

C4_Witness ==
    /\ pc = "return"
    /\ previous_row = None
    /\ Len(c_values.kids) > 0
    /\ \E k \in Slots : RepeatBit(k) = 1 /\ NullBit(k) = 0 /\ result[k + 1] = None
    /\ \E k \in Slots : RepeatBit(k) = 1 /\ NullBit(k) = 1 /\ result[k + 1] = None
    /\ \E k \in Slots : RepeatBit(k) = 0 /\ result[k + 1] # None

\* the entry is an integer index k >= 0: an int or a text of digits
IsIndexEntry(raw) == raw.t \in {"int", "digits"} /\ raw.hi = 0 /\ raw.n >= 0

\* C5: an integer index k consumed at a dictionary-backed slot G1..G10
\* decodes to table[k] when k is below the length of the slot's table and to
\* the placeholder Index_k_OutOfRange when k is equal to or beyond it (always,
\* for an empty table); the decode goes on in both cases.
C5_DictionaryIndexResolution ==
    [][(/\ LoopStep
        /\ col_idx \in 1..10
        /\ RepeatBit(col_idx) = 0
        /\ NullBit(col_idx) = 0
        /\ value_index < Len(c_values.kids)
        /\ IsIndexEntry(c_values.kids[value_index + 1])
        /\ dictionaries[columns[col_idx + 1]].t = "list") =>
          LET k == c_values.kids[value_index + 1].n
              table == dictionaries[columns[col_idx + 1]].kids
          IN  /\ pc' = "loop"
              /\ result'[col_idx + 1] =
                    IF k < Len(table) THEN table[k + 1] ELSE Scalar("oor", 0, k)]_vars

C5_Witness ==
    /\ pc = "return"
    /\ \E k \in 1..10 : result[k + 1] = Display(columns[k + 1], 0)
    /\ \E k \in 1..10 : result[k + 1] = Scalar("oor", 0, 1)
                          /\ Len(dictionaries[columns[k + 1]].kids) = 1

\* C10: process_row_with_binary_masks never raises, whatever the entries of
\* C, the R and Ø fields, the dictionaries and the previous row are, and it
\* returns a row of 15 slots.
C10_DecodeNeverRaises ==
    /\ pc # "raised"
    /\ pc = "return" => Len(result) = NumColumns

\* ------------------------------------------------------------------------
\* Properties of the batch driver and of the projector (specification Spec)
\* ------------------------------------------------------------------------
InBatch == pc \in {"batch", "call", "loop", "return", "raised", "done"}

InRow == pc \in {"call", "loop", "return"}

\* bit k of the mask field of the n-th row node
RowBit(n, key, k) == BitOf(MaskOf(data_rows[n], key), k)

\* C3: the register is empty for the first row and is the decoded 15-slot
\* vector of the row before for every later row, accepted or rejected: a
\* slot of row n+1 that has its repeat bit set is the decoded slot of row n.
C3_LookbackIsLastDecodedRow ==
    InBatch =>
        /\ InRow => /\ Len(processed_rows) = i
                    /\ previous_row = IF i = 0 THEN None ELSE List(processed_rows[i])
        /\ \A n \in 1..Len(processed_rows) :
              /\ Len(processed_rows[n]) = NumColumns
              /\ \A k \in Slots :
                    RowBit(n, "R", k) = 1 =>
                       processed_rows[n][k + 1] =
                          IF n = 1 THEN None ELSE processed_rows[n - 1][k + 1]

C3_Witness ==
    /\ pc = "done"
    /\ \E n \in 3..Len(processed_rows) : \E k \in Slots :
          /\ ~Truthy(processed_rows[n - 1][1])
          /\ RowBit(n, "R", k) = 1
          /\ processed_rows[n][k + 1] # None
          /\ processed_rows[n - 1][k + 1] # processed_rows[n - 2][k + 1]

RECURSIVE AcceptedRecords(_, _)
\* the records of the rows with a non-empty date, in the order of the rows
AcceptedRecords(rows, ts) ==
    IF rows = <<>> THEN <<>>
    ELSE (IF Truthy(Head(rows)[1]) THEN <<CsvRow(Head(rows), ts)>> ELSE <<>>)
         \o AcceptedRecords(Tail(rows), ts)

\* C6: the records collected so far are those of the accepted rows among
\* the rows decoded so far, in the order of the row nodes, one at most for
\* a row node; the rows are decoded in the order of the input sequence.
C6_OutputKeepsInputOrder ==
    InBatch =>
        /\ csv_data = AcceptedRecords(processed_rows, timestamp)
        /\ Len(csv_data) <= Len(processed_rows)
        /\ Len(processed_rows) <= Len(data_rows)
        /\ InRow => (Len(processed_rows) = i /\ row_data = data_rows[i + 1])
        /\ pc = "done" => Len(processed_rows) = Len(data_rows)

C6_Witness ==
    /\ pc = "done"
    /\ Len(csv_data) >= 2
    /\ Len(csv_data) < Len(processed_rows)
    /\ csv_data[1] # csv_data[2]

\* the date field of the record of a decoded row
DateField(row) == IF Truthy(row[1]) THEN row[1] ELSE EmptyStr

\* C7: the row just decoded adds a record, with its date, exactly when its
\* date field is not empty; with an empty date nothing is added, whatever
\* the other slots hold.
C7_RecordIffDate ==
    [][(pc = "return" /\ pc' = "batch") =>
          IF DateField(result) # EmptyStr
          THEN /\ Len(csv_data') = Len(csv_data) + 1
               /\ csv_data'[Len(csv_data')].date = DateField(result)
          ELSE csv_data' = csv_data]_vars

C7_Witness ==
    /\ pc = "done"
    /\ Len(csv_data) > 0
    /\ \E n \in 1..Len(processed_rows) :
          /\ processed_rows[n][1] = None
          /\ \A k \in 2..NumColumns : processed_rows[n][k] # None
    /\ \E n \in 1..Len(processed_rows) : processed_rows[n][1] = IntV(0)

\* ------------------------------------------------------------------------
\* Properties of extract_data_from_json (specification Spec)
\* ------------------------------------------------------------------------
RECURSIVE PathsOf(_)
\* the positions of the nodes of a tree: the sequences of child numbers
PathsOf(obj) ==
    {<<>>} \cup UNION {{<<j>> \o q : q \in PathsOf(obj.kids[j])} : j \in 1..Len(obj.kids)}

RECURSIVE NodeAt(_, _)
NodeAt(obj, path) ==
    IF path = <<>> THEN obj ELSE NodeAt(obj.kids[Head(path)], Tail(path))

RECURSIVE Before(_, _)
\* p is met before q in a depth-first walk: a node before the nodes below
\* it, the children of a node from the first to the last
Before(p, q) ==
    IF p = <<>> THEN q # <<>>
    ELSE IF q = <<>> THEN FALSE
    ELSE IF Head(p) = Head(q) THEN Before(Tail(p), Tail(q))
    ELSE Head(p) < Head(q)

\* a mapping node with a sequence-valued C
IsCandidate(obj) ==
    /\ obj.t = "dict"
    /\ \E j \in 1..Len(obj.keys) : obj.keys[j] = "C" /\ obj.kids[j].t = "list"

\* the field is present and is not null
NonNullField(obj, key) ==
    \E j \in 1..Len(obj.keys) : obj.keys[j] = key /\ obj.kids[j].t # "null"

IsQualifying(obj) ==
    IsCandidate(obj) /\ (NonNullField(obj, "R") \/ NonNullField(obj, "Ø"))

QualifyingPaths(json) == {q \in PathsOf(json) : IsQualifying(NodeAt(json, q))}

\* the path that has n - 1 paths of the set before it
NthPath(paths, n) ==
    CHOOSE q \in paths : Cardinality({r \in paths : Before(r, q)}) = n - 1

\* C8: the rows that extract_data_from_json returns are all the mapping
\* nodes of the tree, at any depth, that carry a list C and a non-null R or
\* Ø, in the order of a depth-first walk; nodes with C and no mask are left out.
C8_RowsInDepthFirstOrder ==
    pc = "process" =>
        LET paths == QualifyingPaths(json_data)
        IN  /\ Len(data_rows) = Cardinality(paths)
            /\ \A n \in 1..Len(data_rows) :
                  data_rows[n] = NodeAt(json_data, NthPath(paths, n))

C8_Witness ==
    /\ pc = "process"
    /\ Len(data_rows) >= 3
    /\ \E p, q \in QualifyingPaths(json_data) : Len(p) # Len(q)
    /\ \E p \in PathsOf(json_data) :
          IsCandidate(NodeAt(json_data, p)) /\ ~IsQualifying(NodeAt(json_data, p))
    /\ \E p \in PathsOf(json_data) :
          HasKey(NodeAt(json_data, p), "C") /\ ~IsCandidate(NodeAt(json_data, p))

\* the field of a mapping node, the empty mapping when it is not there
Field(obj, key) ==
    IF \E j \in 1..Len(obj.keys) : obj.keys[j] = key
    THEN obj.kids[CHOOSE j \in 1..Len(obj.keys) : obj.keys[j] = key]
    ELSE EmptyDict

\* the row-set container: the DS list of the first result
RowSetContainer(json) ==
    LET results == Field(json, "results")
    IN  IF Len(results.kids) = 0 THEN EmptyDict
        ELSE Field(Field(Field(Field(results.kids[1], "result"), "data"), "dsr"), "DS")

HasRowSetContainer(json) == Len(RowSetContainer(json).kids) > 0

\* C9: extraction fails when the response has no row-set container (no
\* results, or no DS list); with a container and no qualifying row node it
\* succeeds, and the batch ends with an empty record list.
C9_NoContainerFailsZeroRowsDoNot ==
    /\ (pc \notin {"navigate", "request", "nav_failed", "api_failed", "extract"}
          /\ ~HasRowSetContainer(json_data)) => pc = "failed"
    /\ (pc \in {"failed", "raised"} /\ HasRowSetContainer(json_data)) =>
          QualifyingPaths(json_data) # {}
    /\ (pc \in {"process", "done"} /\ QualifyingPaths(json_data) = {}) =>
          /\ data_rows = <<>>
          /\ pc = "done" => csv_data = <<>>

C9_Witness ==
    /\ pc = "done"
    /\ HasRowSetContainer(json_data)
    /\ QualifyingPaths(json_data) = {}
    /\ \E p \in PathsOf(json_data) : IsCandidate(NodeAt(json_data, p))
    /\ csv_data = <<>>

\* ------------------------------------------------------------------------
\* Properties of convert_processed_row_to_csv (specification SpecRow)
\* ------------------------------------------------------------------------
\* the slot-to-field table: the fields of the measures and the other fields
MeasureFields == {<<"oil_production", 11>>, <<"gas_production", 12>>,
                  <<"oil_equivalents_boe", 14>>, <<"quantity", 13>>}

CodeFields == {<<"code", 9>>, <<"status", 10>>}

TextFields == {<<"date", 0>>, <<"installation", 1>>, <<"operator", 2>>, <<"type", 3>>,
               <<"estado", 4>>, <<"city", 5>>, <<"atendimento_campo", 6>>, <<"campo", 7>>}

\* the field holds the slot, and the empty string when the slot is null
EmptyOnlyWhenNull(row, rec, fs) ==
    rec[fs[1]] = IF row[fs[2] + 1] = None THEN EmptyStr ELSE row[fs[2] + 1]

\* the field holds the slot, and the empty string when the slot is null,
\* zero, empty or false
EmptyWhenFalsy(row, rec, fs) ==
    rec[fs[1]] = IF Truthy(row[fs[2] + 1]) THEN row[fs[2] + 1] ELSE EmptyStr

Projected == pc = "batch" /\ Len(processed_rows) = 1

\* C11 as stated: every field is read from its slot of the table and is
\* empty for a null slot; the four measure fields are the only ones that keep
\* every value that is not null (a zero too), all other fields, code and
\* status among them, are empty for any slot without a truth value.
C11_OnlyMeasuresKeepFalsyValues ==
    Projected =>
        /\ \A fs \in MeasureFields : EmptyOnlyWhenNull(result, csv_row, fs)
        /\ \A fs \in TextFields \cup CodeFields : EmptyWhenFalsy(result, csv_row, fs)

\* C11 amended: every field is read from its slot of the table and is empty
\* for a null slot; the four measure fields and the fields code and status
\* keep every value that is not null (a zero is kept), the other fields are
\* empty for any slot without a truth value.
C11_FieldsFromSlots ==
    Projected =>
        /\ \A fs \in MeasureFields \cup CodeFields : EmptyOnlyWhenNull(result, csv_row, fs)
        /\ \A fs \in TextFields : EmptyWhenFalsy(result, csv_row, fs)
        /\ \A fs \in MeasureFields \cup CodeFields \cup TextFields :
              result[fs[2] + 1] = None => csv_row[fs[1]] = EmptyStr
        /\ csv_row.scrape_datetime = timestamp

C11_Witness ==
    /\ Projected
    /\ result[12] = IntV(0) /\ csv_row.oil_production = IntV(0)
    /\ result[14] = None /\ csv_row.quantity = EmptyStr
    /\ result[1] = IntV(0) /\ csv_row.date = EmptyStr
    /\ \E k \in 2..11 : result[k] # None

\* ------------------------------------------------------------------------
\* Properties of the mask bits (specification SpecMask)
\* ------------------------------------------------------------------------
RECURSIVE DecodeFrom(_, _, _, _, _, _, _, _)
\* the row that the loop leaves when it is at column col with the row res
\* and the cursor vi
DecodeFrom(col, res, vi, rb, sb, prev, c, dicts) ==
    IF col = NumColumns THEN res
    ELSE LET d == DecodeColumn(col, rb[col + 1], sb[col + 1], prev, c, vi, dicts)
         IN  DecodeFrom(col + 1, [res EXCEPT ![col + 1] = d.value], d.value_index,
                        rb, sb, prev, c, dicts)

\* the decoded row of a row node
DecodedRow(row, prev, dicts) ==
    DecodeFrom(0, [j \in 1..NumColumns |-> None], 0,
               reverse_binary_16bit(Get(row, "R", IntV(0))),
               reverse_binary_16bit(Get(row, "Ø", IntV(0))),
               prev, Get(row, "C", EmptyList), dicts)

\* the row node with bit 15 of both masks cleared
WithoutBit15(row) ==
    RowNode(Get(row, "C", EmptyList),
            IntV(MaskOf(row, "R") % 32768), IntV(MaskOf(row, "Ø") % 32768))

\* C12: the repeat bit and the null bit that the loop reads at slot i are
\* bit i, counted from the least significant bit, of R and of Ø, an absent or
\* null mask counting as 0; and the row decoded is the row decoded from the
\* same node with bit 15 of R and of Ø cleared.
C12_MaskBitsFromLeastSignificant ==
    /\ (pc = "loop" /\ col_idx < NumColumns) =>
          /\ r_binary[col_idx + 1] = RepeatBit(col_idx)
          /\ sigma_binary[col_idx + 1] = NullBit(col_idx)
    /\ pc = "return" =>
          result = DecodedRow(WithoutBit15(row_data), previous_row, dictionaries)

C12_Witness ==
    /\ pc = "return"
    /\ BitOf(MaskOf(row_data, "R"), 15) = 1
    /\ RepeatBit(0) = 1 /\ result[1] = previous_row.kids[1]
    /\ RepeatBit(11) = 1 /\ result[12] = previous_row.kids[12]
    /\ \E k \in Slots : RepeatBit(k) = 0 /\ NullBit(k) = 1 /\ result[k + 1] = None
    /\ \E k \in Slots : RepeatBit(k) = 0 /\ NullBit(k) = 0 /\ result[k + 1] # None

\* ------------------------------------------------------------------------
\* Properties of run (specification Spec)
\* ------------------------------------------------------------------------
\* C13: the steps of run follow one another in the order navigation, API
\* request, decode, CSV write; when the navigation, the API request (a
\* response that carries an error included) or the extraction fails, run ends
\* with the exit status 1 and the CSV file is never opened; the file is
\* written only after every row of the batch is decoded.
C13_StepsInOrderNoPartialOutput ==
    [][ /\ pc = "navigate" => pc' \in {"navigate", "request", "nav_failed"}
        /\ pc' = "request" => pc \in {"navigate", "request"}
        /\ pc' = "extract" => pc \in {"request", "extract"}
        /\ pc' = "process" => pc \in {"extract", "process"}
        /\ pc' = "written" => pc \in {"done", "written"}
        /\ pc' \in {"nav_failed", "api_failed", "failed"} =>
              /\ csv_file' = None
              /\ exit_status' \in {Running, 1}
              /\ pc \in {"nav_failed", "api_failed", "failed"} => pc' = pc
        /\ (pc \in {"nav_failed", "api_failed", "failed"} /\ exit_status' # exit_status) =>
              exit_status' = 1
        /\ exit_status' = 0 => pc' = "written"
        /\ csv_file' # None =>
              /\ pc' = "written"
              /\ ~HasKey(json_data', "error")
              /\ Len(processed_rows') = Len(data_rows')
              /\ csv_file'.kids = csv_data' ]_vars

C13_Witness ==
    /\ pc = "failed"
    /\ exit_status = 1
    /\ csv_file = None
    /\ Len(find_rows(json_data)) > 0

\* ------------------------------------------------------------------------
\* Exhausted sparse sequence (specification SpecRow)
\* ------------------------------------------------------------------------
\* no entry of C is left for the cursor
Exhausted == value_index >= Len(c_values.kids)

\* C14: at a slot with repeat bit 0 and null bit 0 and no unconsumed entry
\* left in C, the slot decodes to null and the decode goes on to the next
\* slot; C stays exhausted to the end of the row, so every later consuming
\* slot decodes to null too, while a slot with repeat bit 1 is still copied
\* from the previous row.
C14_ExhaustedCursorYieldsNull ==
    [][ (LoopStep /\ Exhausted) =>
          /\ pc' = "loop"
          /\ value_index' = value_index
          /\ c_values' = c_values
          /\ (RepeatBit(col_idx) = 0 /\ NullBit(col_idx) = 0) =>
                result'[col_idx + 1] = None
          /\ (RepeatBit(col_idx) = 1 /\ previous_row # None) =>
                result'[col_idx + 1] = previous_row.kids[col_idx + 1]
          /\ \A k \in Slots : k # col_idx => result'[k + 1] = result[k + 1] ]_vars

C14_Witness ==
    /\ pc = "return"
    /\ Len(c_values.kids) = 1 /\ value_index = 1
    /\ MaskOf(row_data, "R") = 2046 /\ MaskOf(row_data, "Ø") = 0
    /\ result[1] # None
    /\ \A k \in 11..14 : result[k + 1] = None
    /\ previous_row # None
    /\ \A k \in 1..10 : result[k + 1] = previous_row.kids[k + 1]
    /\ result[2] # None

\* ------------------------------------------------------------------------
\* The date slot (specification SpecRow)
\* ------------------------------------------------------------------------
\* the entry is a number, or the text of one
IsEpoch(e) == e.t \in {"int", "float", "floatfrac", "digits"}

\* the seconds of the epoch e: of its thousandth when e exceeds 10^12
EpochSeconds(e) ==
    IF GreaterThan(e, Million)
    THEN [hi |-> e.hi \div 1000, n |-> (e.hi % 1000) * 1000 + e.n \div 1000]
    ELSE [hi |-> e.hi, n |-> e.n]

\* the entry parses to a moment that has a calendar date
ParsesToDate(e) ==
    IsEpoch(e) /\ InDatetimeRange(EpochSeconds(e).hi, EpochSeconds(e).n)

\* C15: an entry consumed at slot 0 that parses as an epoch, milliseconds
\* above 10^12 and seconds otherwise, is stored as the text of its calendar
\* date; an entry that does not parse is stored unchanged, the same value of
\* the same type.
C15_DateSlotRendersEveryEpoch ==
    [][ (LoopStep /\ col_idx = 0 /\ RepeatBit(0) = 0 /\ NullBit(0) = 0 /\ ~Exhausted) =>
          LET entry == c_values.kids[value_index + 1]
              sec == EpochSeconds(entry)
          IN  result'[1] = IF ParsesToDate(entry)
                           THEN DateText(DayOfSeconds(sec.hi, sec.n))
                           ELSE entry ]_vars

\* ------------------------------------------------------------------------
\* The dictionary tables of a run (specification Spec)
\* ------------------------------------------------------------------------
SourceNames == <<"D0", "D1", "D2", "D3", "D4", "D5", "D6", "D7", "D8", "D9">>

\* the lookup tables of the first DS node that carries some, else none
FirstLookupTables(json) ==
    LET ds == DsList(json).kids
        carriers == {j \in 1..Len(ds) : HasKey(ds[j], "ValueDicts")}
    IN  IF carriers = {}
        THEN EmptyDict
        ELSE Get(ds[CHOOSE j \in carriers : \A h \in carriers : j <= h],
                 "ValueDicts", EmptyDict)

\* C16: the extraction builds the table of slot Gk, k = 1..10, from the
\* source table D(k-1) of the first DS node that carries lookup tables, the
\* empty sequence when that source table is missing, and no later step
\* changes the tables.
C16_TablesFromFirstCarrier ==
    [][ /\ (pc = "extract" /\ pc' = "process") =>
              \A k \in 1..10 :
                  dictionaries'[columns[k + 1]] =
                      Get(FirstLookupTables(json_data), SourceNames[k], EmptyList)
        /\ pc \notin {"request", "extract"} => dictionaries' = dictionaries ]_vars

\* ------------------------------------------------------------------------
\* Value resolution by slot (specification SpecRow)
\* ------------------------------------------------------------------------
\* int(e), or int(e) of a text of digits, has a value
Coercible(e) == e.t \in {"int", "bool", "float", "floatfrac", "digits"}

\* C17: a consumed entry is looked up in a table only at the slots 1..10,
\* where an entry that is coercible to an integer gives the entry of the
\* slot's table at that position, or the placeholder outside the table, and
\* an entry that is not coercible is stored unchanged; at the measure slots
\* 11..14 the entry is stored unchanged whatever the tables contain, and at
\* slot 0 no table is read.
C17_LookupOnlyAtDictionarySlots ==
    [][ (LoopStep /\ RepeatBit(col_idx) = 0 /\ NullBit(col_idx) = 0 /\ ~Exhausted) =>
          LET entry == c_values.kids[value_index + 1]
              stored == result'[col_idx + 1]
          IN  /\ col_idx \in 11..14 => stored = entry
              /\ (col_idx \in 1..10 /\ ~Coercible(entry)) => stored = entry
              /\ (col_idx \in 1..10 /\ Coercible(entry)
                    /\ dictionaries[columns[col_idx + 1]].t = "list") =>
                    LET table == dictionaries[columns[col_idx + 1]].kids
                    IN  IF entry.hi = 0 /\ entry.n < Len(table)
                        THEN stored = table[entry.n + 1]
                        ELSE stored.t = "oor"
              /\ col_idx = 0 =>
                    /\ stored.t # "oor"
                    /\ stored.t = "str" => stored = entry ]_vars

C17_Witness ==
    /\ pc = "return"
    /\ c_values.kids = <<IntV(0), IntV(1)>>
    /\ dictionaries = FullDicts(MaxDictLen)
    /\ RepeatBit(1) = 0 /\ NullBit(1) = 0 /\ result[2] = Display("G1", 0)
    /\ RepeatBit(11) = 0 /\ NullBit(11) = 0 /\ result[12] = IntV(1)
    /\ value_index = 2

====
